---- MODULE Spec2Model ----
(***************************************************************************)
(* A model of cloudlead_production.py: the Airtable store (tables Projects *)
(* and Leads), the webhook that creates projects, the lead synthesizer,    *)
(* the project processor and the poll loop.                                *)
(*                                                                         *)
(* The remote store is modelled as atomic per request: a request that is   *)
(* answered 200 has been applied, a request that is answered with another  *)
(* status or that ends in a transport exception has not been applied.     *)
(* Timestamps are left out, except that Date Completed is set or not.      *)
(***************************************************************************)
EXTENDS Integers, Sequences, FiniteSets, TLC

\* ------------------------------------------------------------------ bounds
MaxProjects == 2        \* project records the store can hold
MaxFailures == 2        \* failing calls (store, KeyError) injected in one behaviour
MaxAIFailures == 2      \* failing completion calls in one generate_leads oracle
MaxGenCount == 22       \* largest count handed to generate_leads on its own

\* ------------------------------------------------------- program constants
BatchSize == 10         \* add_leads: range(0, len(records), 10), records[i:i+10]
LeadCap == 20           \* generate_leads: min(count, 20)
DefaultLeadCount == 10  \* fields.get("Lead Count", 10) or 10
ScoreBase == 80         \* lead['score'] = 80 + (i % 20)
ScoreMod == 20

ProjectIds == 1..MaxProjects
Instances == {1, 2}

\* JSON values of the Lead Count field: an integer, null (an empty Airtable
\* field, left out of the record's fields on read) or a missing request key.
IntVal(n) == [t |-> "int", v |-> n]
Null == [t |-> "null", v |-> 0]
Missing == [t |-> "missing", v |-> 0]

\* An empty Industry field is the empty string.
NoIndustry == ""

VARIABLES
  projectsTable,  \* store, Projects: id -> [Status, LeadCount, Industry, DateCompleted]
  leadsTable,     \* store, Leads: id of the owning project -> the persisted lead records
  pc,             \* per loop instance: where run() stands
  ai_enabled,     \* per loop instance: self.ai_enabled
  projects,       \* per loop instance: the rest of the list returned by get_new_projects
  cur,            \* per loop instance: the project process_project works on
  leads,          \* per loop instance: the list generate_leads returned
  bi,             \* per loop instance: add_leads' loop index i
  addResult,      \* per loop instance: what add_leads returned
  log,            \* per loop instance: the calls of the current process_project run
  writes,         \* history: id -> status PATCH requests issued so far
  insertRuns,     \* history: id -> process_project runs that persisted leads for it
  failures,       \* failing calls injected so far
  g_out,          \* completion-service oracle: outcome of the k-th call
  g_call,         \* generate_leads on its own: the arguments of the last call
  g_result        \* generate_leads on its own: what the last call returned

vars == <<projectsTable, leadsTable, pc, ai_enabled, projects, cur, leads, bi,
          addResult, log, writes, insertRuns, failures, g_out, g_call, g_result>>

loopVars == <<pc, ai_enabled, projects, cur, leads, bi, addResult, log>>
storeVars == <<projectsTable, leadsTable, writes, insertRuns>>
genVars == <<g_out, g_call, g_result>>

\* ------------------------------------------------------ lead synthesizer
Placeholder == "AI analysis will be enabled with OpenAI API key"
AIError == "AI analysis error"
CompletionText == "completion text"

templates(industry) ==
  CASE industry = "Technology" ->
         << [company |-> "TechFlow Inc", user |-> "sarah", domain |-> "techflow.com"],
            [company |-> "DataNova Systems", user |-> "michael", domain |-> "datanova.com"],
            [company |-> "CloudCraft", user |-> "jessica", domain |-> "cloudcraft.com"] >>
    [] industry = "Finance" ->
         << [company |-> "CapitalFirst Bank", user |-> "robert", domain |-> "capitalfirst.com"],
            [company |-> "WealthBuild Advisors", user |-> "emily", domain |-> "wealthbuild.com"] >>
    [] industry = "Healthcare" ->
         << [company |-> "MedTech Solutions", user |-> "james", domain |-> "medtech.com"],
            [company |-> "BioHealth Labs", user |-> "lisa", domain |-> "biohealth.com"] >>
    [] OTHER -> <<>>

KnownIndustries == {"Technology", "Finance", "Healthcare"}

\* templates.get(industry, templates["Technology"])
template_for(industry) ==
  IF industry \in KnownIndustries THEN templates(industry) ELSE templates("Technology")

Min(a, b) == IF a < b THEN a ELSE b

\* len(range(n))
RangeLen(n) == IF n > 0 THEN n ELSE 0

\* ai_analyze without its try/except: a failing completion call raises.
ai_analyze_unguarded(enabled, outcome) ==
  IF ~enabled
    THEN [raised |-> FALSE, value |-> Placeholder, called |-> FALSE]
    ELSE IF outcome = "ok"
      THEN [raised |-> FALSE, value |-> CompletionText, called |-> TRUE]
      ELSE [raised |-> TRUE, value |-> AIError, called |-> TRUE]

\* ai_analyze: outcome is what openai.ChatCompletion.create does when called.
\* The result says whether an exception left the function, the value
\* returned, and whether the completion service was called.
ai_analyze(enabled, outcome) ==
  IF ~enabled
    THEN [raised |-> FALSE, value |-> Placeholder, called |-> FALSE]
    ELSE IF outcome = "ok"
      THEN [raised |-> FALSE, value |-> CompletionText, called |-> TRUE]
      ELSE [raised |-> FALSE, value |-> AIError, called |-> TRUE]

\* The body of generate_leads' loop for index i (0-based), given ai_analyze's value.
make_lead(template, i, analysis) ==
  LET t == template[(i % Len(template)) + 1]
  IN [company |-> t.company,
      email |-> <<t.user, i, t.domain>>,
      analysis |-> analysis,
      score |-> ScoreBase + (i % ScoreMod)]

\* generate_leads' loop without the cap: range(count).
lead_total_uncapped(count) == RangeLen(count)

\* How many leads generate_leads' loop runs for.
lead_total(count) == RangeLen(Min(count, LeadCap))

RECURSIVE gen_loop(_, _, _, _, _)
gen_loop(template, n, enabled, out, acc) ==
  LET i == Len(acc.leads)
  IN IF i >= n THEN acc
     ELSE LET a == ai_analyze(enabled, out[i + 1])
              calls == acc.calls + (IF a.called THEN 1 ELSE 0)
          IN IF a.raised
               THEN [raised |-> TRUE, leads |-> acc.leads, calls |-> calls]
               ELSE gen_loop(template, n, enabled, out,
                             [raised |-> FALSE,
                              leads |-> Append(acc.leads, make_lead(template, i, a.value)),
                              calls |-> calls])

\* generate_leads(industry, count); out[k] is the outcome of the k-th completion call.
generate_leads(industry, count, enabled, out) ==
  gen_loop(template_for(industry), lead_total(count), enabled, out,
           [raised |-> FALSE, leads |-> <<>>, calls |-> 0])

\* ------------------------------------------------------------ the store
Statuses == {"New", "In Progress", "Completed", "Failed"}
Terminal == {"Completed", "Failed"}

\* A slot of the Projects table that holds no record yet.
NoRecord == [Status |-> "Absent", LeadCount |-> Null, Industry |-> NoIndustry,
             DateCompleted |-> FALSE]

Exists(p) == projectsTable[p].Status # "Absent"

\* The record as the store returns it: {"id": ..., "fields": {...}}.
snapshot(p) == [id |-> p, fields |-> projectsTable[p]]

\* get_new_projects without its filter: every record of the table.
matches_filter_any(rec) == rec.Status # "Absent"

\* filterByFormula "{Status} = 'New'"
matches_filter(rec) == rec.Status = "New"

RECURSIVE records_from(_)
records_from(p) ==
  IF p > MaxProjects THEN <<>>
  ELSE (IF matches_filter(projectsTable[p]) THEN <<snapshot(p)>> ELSE <<>>)
       \o records_from(p + 1)

RECURSIVE all_from(_)
all_from(p) ==
  IF p > MaxProjects THEN <<>>
  ELSE (IF Exists(p) THEN <<snapshot(p)>> ELSE <<>>) \o all_from(p + 1)

\* The answer to a GET without filterByFormula.
all_records == all_from(1)

\* The body of a 200 answer to get_new_projects' GET.
new_records == records_from(1)

\* The store after a PATCH of update_project_status' update_data.
patched(table, p, status, leads_count) ==
  [table EXCEPT ![p] = [@ EXCEPT !.Status = status,
                                 !.LeadCount = IntVal(leads_count),
                                 !.DateCompleted = IF status = "Completed" THEN TRUE ELSE @]]

\* add_leads: the record written for one lead.
to_record(lead, project_id) ==
  [Company |-> lead.company, Email |-> lead.email, Status |-> "Verified",
   Score |-> lead.score, Project |-> <<project_id>>, Notes |-> lead.analysis]

to_records(ls, project_id) == [k \in 1..Len(ls) |-> to_record(ls[k], project_id)]

\* A slice one record too long: records[i:i+11].
batch_at_overlapping(records, i) ==
  SubSeq(records, i + 1, Min(i + BatchSize + 1, Len(records)))

\* records[i:i+10]
batch_at(records, i) == SubSeq(records, i + 1, Min(i + BatchSize, Len(records)))

LeadsOf(p) == {k \in DOMAIN leadsTable : leadsTable[k].Project = <<p>>}

\* One call of a process_project run, as the log keeps it.
PatchEvent(p, status, n, ok) ==
  [op |-> "patch", id |-> p, status |-> status, count |-> n, batch |-> <<>>, ok |-> ok]
GenerateEvent(p, n) ==
  [op |-> "generate", id |-> p, status |-> "", count |-> n, batch |-> <<>>, ok |-> TRUE]
PostEvent(p, batch, ok) ==
  [op |-> "post", id |-> p, status |-> "", count |-> Len(batch), batch |-> batch, ok |-> ok]

\* A call may fail while the failure budget lasts.
Outcomes == {ok \in BOOLEAN : ok \/ failures < MaxFailures}
Charge(ok) == failures' = failures + (IF ok THEN 0 ELSE 1)

\* update_project_status(project_id, status, leads_count) answering ok, in a
\* step of instance i: the PATCH is issued, applied when ok, and logged.
update_project_status(i, p, status, leads_count, ok, logBefore) ==
  /\ projectsTable' = IF ok THEN patched(projectsTable, p, status, leads_count)
                          ELSE projectsTable
  /\ writes' = [writes EXCEPT ![p] = @ + 1]
  /\ log' = [log EXCEPT ![i] = Append(logBefore, PatchEvent(p, status, leads_count, ok))]
  /\ Charge(ok)

\* ---------------------------------------------------------------- webhook
\* The request's industry; the empty string stands for a missing key.
RequestIndustries == {"Finance"}
RequestLeadCounts == {IntVal(-1), IntVal(0), IntVal(12), IntVal(25)}

\* data.get(key, default): the default only when the key is missing.
get_or(value, default) == IF value.t = "missing" THEN default ELSE value

\* handle_project: POST of one record with Status New; the store assigns the id.
create_project(industries, lead_counts) ==
  \E p \in ProjectIds, industry \in industries,
     lead_count \in lead_counts, ok \in Outcomes :
    /\ ~Exists(p)
    /\ \A q \in ProjectIds : q < p => Exists(q)
    /\ projectsTable' =
         IF ok THEN [projectsTable EXCEPT ![p] =
                       [Status |-> "New",
                        LeadCount |-> get_or(lead_count, IntVal(DefaultLeadCount)),
                        Industry |-> IF industry = "" THEN "Technology" ELSE industry,
                        DateCompleted |-> FALSE]]
               ELSE projectsTable
    /\ Charge(ok)
    /\ UNCHANGED <<leadsTable, writes, insertRuns, loopVars, genVars>>

handle_project == create_project(RequestIndustries, RequestLeadCounts)

\* -------------------------------------------------------------- poll loop
\* Where run() can stand inside its try block.
InTry == {"fetch", "for", "generate", "add_leads", "finish", "sleep"}

\* The completion service answers every call of a poll loop's generate_leads;
\* its failures are explored on generate_leads alone, below.
OkOracle == [k \in 1..LeadCap |-> "ok"]

\* fields.get("Industry", "Technology")
industry_of(fields) == IF fields.Industry = NoIndustry THEN "Technology" ELSE fields.Industry

\* fields.get("Lead Count", 10) or 10
lead_count_of(fields) ==
  LET got == IF fields.LeadCount.t = "int" THEN fields.LeadCount.v ELSE DefaultLeadCount
  IN IF got = 0 THEN DefaultLeadCount ELSE got

NoProject == [id |-> 0, fields |-> NoRecord]

\* process_project has returned or was left by an exception: its locals are gone.
ReturnFrom(i) ==
  /\ cur' = [cur EXCEPT ![i] = NoProject]
  /\ leads' = [leads EXCEPT ![i] = <<>>]
  /\ bi' = [bi EXCEPT ![i] = 0]
  /\ addResult' = [addResult EXCEPT ![i] = FALSE]

\* get_new_projects, then run's `if projects:`.
get_new_projects(i) ==
  /\ pc[i] = "fetch"
  /\ \E ok \in Outcomes :
       LET got == IF ok THEN new_records ELSE <<>>
       IN /\ projects' = [projects EXCEPT ![i] = got]
          /\ pc' = [pc EXCEPT ![i] = IF got # <<>> THEN "for" ELSE "sleep"]
          /\ Charge(ok)
  /\ UNCHANGED <<storeVars, ai_enabled, cur, leads, bi, addResult, log, genVars>>

\* process_project, lines 187-188: a record of the answer that lacks "id" or
\* "fields" raises KeyError, which leaves the for loop for run's handler.
process_project_key_error(i) ==
  /\ pc[i] = "for"
  /\ projects[i] # <<>>
  /\ failures < MaxFailures
  /\ failures' = failures + 1
  /\ pc' = [pc EXCEPT ![i] = "handler"]
  /\ projects' = [projects EXCEPT ![i] = <<>>]
  /\ log' = [log EXCEPT ![i] = <<>>]
  /\ UNCHANGED <<storeVars, ai_enabled, cur, leads, bi, addResult, genVars>>

\* process_project without the return after a failed In Progress write.
process_project_begin_unchecked(i) ==
  /\ pc[i] = "for"
  /\ projects[i] # <<>>
  /\ LET project == Head(projects[i])
     IN \E ok \in Outcomes :
          /\ update_project_status(i, project.id, "In Progress", 0, ok, <<>>)
          /\ cur' = [cur EXCEPT ![i] = project]
          /\ projects' = [projects EXCEPT ![i] = Tail(@)]
          /\ pc' = [pc EXCEPT ![i] = "generate"]
  /\ UNCHANGED <<leadsTable, insertRuns, ai_enabled, leads, bi, addResult, genVars>>

\* process_project up to the return after the In Progress write.
process_project_begin(i) ==
  /\ pc[i] = "for"
  /\ projects[i] # <<>>
  /\ LET project == Head(projects[i])
     IN \E ok \in Outcomes :
          /\ update_project_status(i, project.id, "In Progress", 0, ok, <<>>)
          /\ cur' = [cur EXCEPT ![i] = IF ok THEN project ELSE NoProject]
          /\ projects' = [projects EXCEPT ![i] = Tail(@)]
          /\ pc' = [pc EXCEPT ![i] = IF ok THEN "generate" ELSE "for"]
  /\ UNCHANGED <<leadsTable, insertRuns, ai_enabled, leads, bi, addResult, genVars>>

\* process_project, lines 199-203: resolve the arguments and call generate_leads.
process_project_generate(i) ==
  /\ pc[i] = "generate"
  /\ \E out \in {OkOracle} :
       LET r == generate_leads(industry_of(cur[i].fields), lead_count_of(cur[i].fields),
                               ai_enabled[i], out)
       IN IF r.raised
            THEN /\ pc' = [pc EXCEPT ![i] = "handler"]
                 /\ projects' = [projects EXCEPT ![i] = <<>>]
                 /\ ReturnFrom(i)
                 /\ UNCHANGED log
            ELSE /\ pc' = [pc EXCEPT ![i] = "add_leads"]
                 /\ leads' = [leads EXCEPT ![i] = r.leads]
                 /\ bi' = [bi EXCEPT ![i] = 0]
                 /\ log' = [log EXCEPT ![i] = Append(@, GenerateEvent(cur[i].id, Len(r.leads)))]
                 /\ UNCHANGED <<projects, cur, addResult>>
  /\ UNCHANGED <<storeVars, ai_enabled, failures, genVars>>

\* add_leads, lines 111-113: nothing to add.
add_leads_empty(i) ==
  /\ pc[i] = "add_leads"
  /\ leads[i] = <<>>
  /\ addResult' = [addResult EXCEPT ![i] = TRUE]
  /\ pc' = [pc EXCEPT ![i] = "finish"]
  /\ UNCHANGED <<storeVars, ai_enabled, projects, cur, leads, bi, log, failures, genVars>>

\* add_leads, one turn of the batch loop: the POST of records[i:i+10], then
\* either the next turn, `return True` when the range is used up, or
\* `return False` on a failed POST.
add_leads_batch(i) ==
  /\ pc[i] = "add_leads"
  /\ leads[i] # <<>>
  /\ LET records == to_records(leads[i], cur[i].id)
         batch == batch_at(records, bi[i])
         next == bi[i] + BatchSize
     IN \E ok \in Outcomes :
          /\ leadsTable' = IF ok THEN leadsTable \o batch ELSE leadsTable
          /\ insertRuns' = IF ok /\ bi[i] = 0
                             THEN [insertRuns EXCEPT ![cur[i].id] = @ + 1]
                             ELSE insertRuns
          /\ log' = [log EXCEPT ![i] = Append(@, PostEvent(cur[i].id, batch, ok))]
          /\ Charge(ok)
          /\ IF ok /\ next < Len(records)
               THEN /\ bi' = [bi EXCEPT ![i] = next]
                    /\ UNCHANGED <<pc, addResult>>
               ELSE /\ addResult' = [addResult EXCEPT ![i] = ok]
                    /\ pc' = [pc EXCEPT ![i] = "finish"]
                    /\ UNCHANGED bi
  /\ UNCHANGED <<projectsTable, writes, ai_enabled, projects, cur, leads, genVars>>

\* process_project writing the requested count, not len(leads), on Completed.
process_project_finish_requested(i) ==
  /\ pc[i] = "finish"
  /\ \E ok \in Outcomes :
       IF addResult[i]
         THEN update_project_status(i, cur[i].id, "Completed",
                                    lead_count_of(cur[i].fields), ok, log[i])
         ELSE update_project_status(i, cur[i].id, "Failed", 0, ok, log[i])
  /\ pc' = [pc EXCEPT ![i] = "for"]
  /\ ReturnFrom(i)
  /\ UNCHANGED <<leadsTable, insertRuns, ai_enabled, projects, genVars>>

\* process_project, lines 206-211: the closing status write, its result unused.
process_project_finish(i) ==
  /\ pc[i] = "finish"
  /\ \E ok \in Outcomes :
       IF addResult[i]
         THEN update_project_status(i, cur[i].id, "Completed", Len(leads[i]), ok, log[i])
         ELSE update_project_status(i, cur[i].id, "Failed", 0, ok, log[i])
  /\ pc' = [pc EXCEPT ![i] = "for"]
  /\ ReturnFrom(i)
  /\ UNCHANGED <<leadsTable, insertRuns, ai_enabled, projects, genVars>>

\* run: the for loop is used up.
for_done(i) ==
  /\ pc[i] = "for"
  /\ projects[i] = <<>>
  /\ pc' = [pc EXCEPT ![i] = "sleep"]
  /\ log' = [log EXCEPT ![i] = <<>>]
  /\ UNCHANGED <<storeVars, ai_enabled, projects, cur, leads, bi, addResult,
                 failures, genVars>>

\* run, line 228: time.sleep(60) returns.
sleep_done(i) ==
  /\ pc[i] = "sleep"
  /\ pc' = [pc EXCEPT ![i] = "fetch"]
  /\ UNCHANGED <<storeVars, ai_enabled, projects, cur, leads, bi, addResult, log,
                 failures, genVars>>

\* run, lines 233-235: the handler's time.sleep(60) returns.
handler_done(i) ==
  /\ pc[i] = "handler"
  /\ pc' = [pc EXCEPT ![i] = "fetch"]
  /\ UNCHANGED <<storeVars, ai_enabled, projects, cur, leads, bi, addResult, log,
                 failures, genVars>>

\* KeyboardInterrupt inside run's try block: caught at line 230, break.
interrupt_in_try(i) ==
  /\ pc[i] \in InTry
  /\ pc' = [pc EXCEPT ![i] = "stopped"]
  /\ projects' = [projects EXCEPT ![i] = <<>>]
  /\ log' = [log EXCEPT ![i] = <<>>]
  /\ ReturnFrom(i)
  /\ UNCHANGED <<storeVars, ai_enabled, failures, genVars>>

\* KeyboardInterrupt inside the `except Exception` handler (lines 234-235):
\* no except clause of the same try covers a handler's body.
interrupt_in_handler(i) ==
  /\ pc[i] = "handler"
  /\ pc' = [pc EXCEPT ![i] = "escaped"]
  /\ projects' = [projects EXCEPT ![i] = <<>>]
  /\ log' = [log EXCEPT ![i] = <<>>]
  /\ ReturnFrom(i)
  /\ UNCHANGED <<storeVars, ai_enabled, failures, genVars>>

InitStore ==
  /\ projectsTable = [p \in ProjectIds |-> NoRecord]
  /\ leadsTable = <<>>
  /\ writes = [p \in ProjectIds |-> 0]
  /\ insertRuns = [p \in ProjectIds |-> 0]
  /\ failures = 0

InitLoop(running) ==
  /\ pc = [i \in Instances |-> IF i \in running THEN "fetch" ELSE "off"]
  /\ ai_enabled \in [Instances -> BOOLEAN]
  /\ \A i \in Instances : i \notin running => ~ai_enabled[i]
  /\ projects = [i \in Instances |-> <<>>]
  /\ cur = [i \in Instances |-> NoProject]
  /\ leads = [i \in Instances |-> <<>>]
  /\ bi = [i \in Instances |-> 0]
  /\ addResult = [i \in Instances |-> FALSE]
  /\ log = [i \in Instances |-> <<>>]

InitGen ==
  /\ g_out = <<>>
  /\ g_call = [made |-> FALSE, industry |-> "", count |-> 0, enabled |-> FALSE]
  /\ g_result = [raised |-> FALSE, leads |-> <<>>, calls |-> 0]

\* One service: the webhook and a single poll loop.
Init == InitStore /\ InitLoop({1}) /\ InitGen

Next ==
  \/ handle_project
  \/ \E i \in Instances :
       \/ get_new_projects(i)
       \/ process_project_key_error(i)
       \/ process_project_begin(i)
       \/ process_project_generate(i)
       \/ add_leads_empty(i)
       \/ add_leads_batch(i)
       \/ process_project_finish(i)
       \/ for_done(i)
       \/ sleep_done(i)
       \/ handler_done(i)
       \/ interrupt_in_try(i)
       \/ interrupt_in_handler(i)

Spec == Init /\ [][Next]_vars

\* ------------------------------------------------ generate_leads on its own
GenIndustries == {"Technology", "Finance", "Healthcare", "Retail", NoIndustry}
GenCounts == (-2)..MaxGenCount

ExcCount(out) == Cardinality({k \in DOMAIN out : out[k] = "exc"})

\* The completion service decides the outcome of its next call.
oracle_step ==
  /\ Len(g_out) < LeadCap
  /\ \E o \in {"ok", "exc"} :
       /\ o = "exc" => ExcCount(g_out) < MaxAIFailures
       /\ g_out' = Append(g_out, o)
  /\ UNCHANGED <<g_call, g_result, storeVars, loopVars, failures>>

\* generate_leads(industry, count) is called against the oracle.
call_generate_leads ==
  /\ Len(g_out) = LeadCap
  /\ ~g_call.made
  /\ \E industry \in GenIndustries, count \in GenCounts, enabled \in BOOLEAN :
       /\ g_call' = [made |-> TRUE, industry |-> industry, count |-> count,
                     enabled |-> enabled]
       /\ g_result' = generate_leads(industry, count, enabled, g_out)
  /\ UNCHANGED <<g_out, storeVars, loopVars, failures>>

InitG == InitStore /\ InitLoop({}) /\ InitGen

NextG == oracle_step \/ call_generate_leads

SpecG == InitG /\ [][NextG]_vars

\* --------------------------------------- two services against one store
\* Two independent poll loops, neither configured for the completion service;
\* projects arrive through the webhook without a lead count or with a null
\* one, and a single call of the whole behaviour may fail.
Init2 ==
  /\ projectsTable = [p \in ProjectIds |-> NoRecord]
  /\ leadsTable = <<>>
  /\ writes = [p \in ProjectIds |-> 0]
  /\ insertRuns = [p \in ProjectIds |-> 0]
  /\ failures = MaxFailures - 1
  /\ InitLoop({1, 2})
  /\ ai_enabled = [i \in Instances |-> FALSE]
  /\ InitGen

handle_project_plain == create_project({""}, {Missing, Null})

Next2 ==
  \/ handle_project_plain
  \/ \E i \in Instances :
       \/ get_new_projects(i)
       \/ process_project_begin(i)
       \/ process_project_generate(i)
       \/ add_leads_batch(i)
       \/ process_project_finish(i)
       \/ for_done(i)
       \/ sleep_done(i)

Spec2 == Init2 /\ [][Next2]_vars

\* ---------------------------------------------------- add_leads on its own
\* process_project stands at its call of add_leads for the one project of
\* the store: the In Progress write was answered 200 and generate_leads
\* returned, for any stored Lead Count from -1 to the cap and any industry.
InitA ==
  \E n \in (-1)..LeadCap, industry \in KnownIndustries :
    LET fields == [Status |-> "New", LeadCount |-> IntVal(n), Industry |-> industry,
                   DateCompleted |-> FALSE]
        r == generate_leads(industry_of(fields), lead_count_of(fields), FALSE, OkOracle)
    IN /\ projectsTable = [p \in ProjectIds |->
                             IF p = 1 THEN patched([q \in {1} |-> fields], 1, "In Progress", 0)[1]
                                      ELSE NoRecord]
       /\ leadsTable = <<>>
       /\ writes = [p \in ProjectIds |-> IF p = 1 THEN 1 ELSE 0]
       /\ insertRuns = [p \in ProjectIds |-> 0]
       /\ failures = 0
       /\ pc = [i \in Instances |-> IF i = 1 THEN "add_leads" ELSE "off"]
       /\ ai_enabled = [i \in Instances |-> FALSE]
       /\ projects = [i \in Instances |-> <<>>]
       /\ cur = [i \in Instances |-> IF i = 1 THEN [id |-> 1, fields |-> fields]
                                              ELSE NoProject]
       /\ leads = [i \in Instances |-> IF i = 1 THEN r.leads ELSE <<>>]
       /\ bi = [i \in Instances |-> 0]
       /\ addResult = [i \in Instances |-> FALSE]
       /\ log = [i \in Instances |->
                   IF i = 1 THEN <<PatchEvent(1, "In Progress", 0, TRUE),
                                   GenerateEvent(1, Len(r.leads))>>
                            ELSE <<>>]
       /\ InitGen

NextA == add_leads_empty(1) \/ add_leads_batch(1) \/ process_project_finish(1)

SpecA == InitA /\ [][NextA]_vars

\* ================================================================ claims
Running == {i \in Instances : pc[i] # "off"}

IsPost(e) == e.op = "post"
Posts(i) == SelectSeq(log[i], IsPost)

RECURSIVE Concat(_)
Concat(batches) ==
  IF batches = <<>> THEN <<>> ELSE Head(batches).batch \o Concat(Tail(batches))

\* A process_project run of instance i that got past the In Progress write
\* has returned: the loop is back at its head and the run's calls are logged.
RunEnded(i) == pc[i] = "for" /\ Len(log[i]) > 1

\* add_leads of the logged run returned True: no POST of it failed.
InsertionSucceeded(i) == \A k \in 1..Len(Posts(i)) : Posts(i)[k].ok

\* The number of leads generate_leads returned in the logged run.
Generated(i) == log[i][2].count

Stored(i) == projectsTable[log[i][1].id]

\* C1: after process_project, a successful leads insertion leaves the project
\* Completed with Lead Count = the number of leads generated, a failed one
\* leaves it Failed with Lead Count 0, whatever the status writes answered.
C1_FinalStatusFollowsInsertion ==
  \A i \in Running :
    RunEnded(i) =>
      IF InsertionSucceeded(i)
        THEN Stored(i).Status = "Completed" /\ Stored(i).LeadCount = IntVal(Generated(i))
        ELSE Stored(i).Status = "Failed" /\ Stored(i).LeadCount = IntVal(0)

\* A run whose In Progress write failed.
AbortedAtInProgress(i) ==
  /\ log[i] # <<>>
  /\ log[i][1].op = "patch"
  /\ log[i][1].status = "In Progress"
  /\ ~log[i][1].ok

RECURSIVE Ids(_)
Ids(recs) == IF recs = <<>> THEN {} ELSE {Head(recs).id} \cup Ids(Tail(recs))

\* C2: when the In Progress write fails, process_project returns at once: the
\* run holds no generate_leads call, no lead POST and no other status write,
\* the project is not taken up again in the iteration, and it is still New.
C2_AbortOnFailedInProgress ==
  \A i \in Running :
    AbortedAtInProgress(i) =>
      /\ Len(log[i]) = 1
      /\ pc[i] = "for"
      /\ cur[i] = NoProject /\ leads[i] = <<>>
      /\ log[i][1].id \notin Ids(projects[i])
      /\ projectsTable[log[i][1].id].Status = "New"

C2_Witness ==
  \E i \in Running : AbortedAtInProgress(i) /\ pc[i] = "for" /\ projects[i] # <<>>

Forward(from, to) ==
  \/ from = "Absent" /\ to = "New"
  \/ from = "New" /\ to = "In Progress"
  \/ from = "In Progress" /\ to \in Terminal

\* C3: with one poll loop, every change of a project's stored Status is a
\* step New -> In Progress -> Completed or Failed (after its creation as
\* New), and no status write is issued for a Completed or Failed project.
C3_StatusMovesForward ==
  [][\A p \in ProjectIds :
       /\ projectsTable'[p].Status # projectsTable[p].Status
            => Forward(projectsTable[p].Status, projectsTable'[p].Status)
       /\ projectsTable[p].Status \in Terminal => writes'[p] = writes[p]]_vars

\* A project is Completed or Failed and the loop, in a later iteration, has
\* fetched a fresh list of projects to process.
C3_Witness ==
  /\ \E p \in ProjectIds : projectsTable[p].Status \in Terminal /\ writes[p] = 2
  /\ pc[1] = "for" /\ log[1] = <<>> /\ projects[1] # <<>>

\* C5: no exception ever escapes run: an interrupt, wherever it arrives in
\* the loop (fetch, processing, either sleep), ends the loop cleanly.
C5_InterruptExitsCleanly == \A i \in Running : pc[i] # "escaped"

\* C6: every POST of add_leads carries 1 to 10 records, the POSTs are the
\* consecutive slices of the record list in order, and when add_leads
\* returns True the slices sent make up the whole list, each lead once.
C6_BatchesAreConsecutiveSlices ==
  \A i \in Running :
    pc[i] \in {"add_leads", "finish"} =>
      LET records == to_records(leads[i], cur[i].id)
          sent == Concat(Posts(i))
      IN /\ \A k \in 1..Len(Posts(i)) :
              Len(Posts(i)[k].batch) >= 1 /\ Len(Posts(i)[k].batch) <= BatchSize
         /\ Len(sent) <= Len(records)
         /\ sent = SubSeq(records, 1, Len(sent))
         /\ \A a, b \in 1..Len(sent) : a # b => sent[a] # sent[b]
         /\ (pc[i] = "finish" /\ addResult[i]) => sent = records

C6_Witness ==
  \E i \in Running :
    /\ pc[i] = "finish" /\ addResult[i]
    /\ Len(leads[i]) = BatchSize + 3
    /\ Len(Posts(i)) = 2
    /\ Len(Posts(i)[1].batch) = BatchSize
    /\ Len(Posts(i)[2].batch) = 3

\* The records the logged run's successful POSTs carried.
PersistedByRun(i) ==
  LET okPosts == SelectSeq(Posts(i), LAMBDA e : e.ok) IN Len(Concat(okPosts))

\* C7: when a batch write fails, it is the last POST of the run, the batches
\* written before it stay in the Leads table, and the project ends Failed.
C7_FailedBatchEndsFailed ==
  \A i \in Running :
    (RunEnded(i) /\ ~InsertionSucceeded(i)) =>
      /\ \A k \in 1..Len(Posts(i)) : ~Posts(i)[k].ok => k = Len(Posts(i))
      /\ Cardinality(LeadsOf(log[i][1].id)) = PersistedByRun(i)
      /\ Stored(i).Status = "Failed"

\* C10: with one poll loop, leads are inserted for a project in at most one
\* run of process_project, and a Completed project has as many Lead records
\* as its stored Lead Count says.
C10_LeadsInsertedOnce ==
  \A p \in ProjectIds :
    /\ insertRuns[p] <= 1
    /\ projectsTable[p].Status = "Completed" =>
         projectsTable[p].LeadCount = IntVal(Cardinality(LeadsOf(p)))

C10_Witness ==
  \E p \in ProjectIds :
    /\ projectsTable[p].Status = "Completed"
    /\ Cardinality(LeadsOf(p)) = LeadCap
    /\ \E q \in ProjectIds : q # p /\ projectsTable[q].Status = "Failed"
                             /\ Cardinality(LeadsOf(q)) = BatchSize

\* What the loop of generate_leads runs for: nothing for a negative count.
ExpectedTotal(count) ==
  IF count < 0 THEN 0 ELSE IF count <= LeadCap THEN count ELSE LeadCap

\* C8 as stated: count leads for every count <= 20, 20 leads above.
C8_CountOrTwenty ==
  g_call.made =>
    Len(g_result.leads) = (IF g_call.count <= LeadCap THEN g_call.count ELSE LeadCap)

\* C8, amended: generate_leads returns count leads for 0 <= count <= 20,
\* 20 leads for count > 20 and no lead for a negative count.
C8_CountClampedToZeroAndTwenty ==
  g_call.made =>
    /\ ~g_result.raised
    /\ Len(g_result.leads) = ExpectedTotal(g_call.count)

C8_Witness ==
  /\ g_call.made
  /\ g_call.count > LeadCap
  /\ Len(g_result.leads) = LeadCap

\* C9: generate_leads never raises; without a credential every lead carries
\* the placeholder and the completion service is not called; with one, a
\* failed call leaves the error string in that lead's analysis, an answered
\* call its text, and all the leads are produced all the same.
C9_NeverRaises ==
  g_call.made =>
    /\ ~g_result.raised
    /\ Len(g_result.leads) = ExpectedTotal(g_call.count)
    /\ ~g_call.enabled =>
         /\ g_result.calls = 0
         /\ \A k \in 1..Len(g_result.leads) : g_result.leads[k].analysis = Placeholder
    /\ g_call.enabled =>
         /\ g_result.calls = Len(g_result.leads)
         /\ \A k \in 1..Len(g_result.leads) :
              g_result.leads[k].analysis =
                (IF g_out[k] = "exc" THEN AIError ELSE CompletionText)

\* A completion call failed and leads were still produced after it.
C9_Witness ==
  /\ g_call.made /\ g_call.enabled /\ ~g_result.raised
  /\ \E k \in 1..Len(g_result.leads) :
       /\ g_out[k] = "exc"
       /\ k < Len(g_result.leads)
       /\ g_result.leads[k].analysis = AIError
       /\ g_result.leads[k + 1].analysis = CompletionText

\* C4: nothing keeps two poll loops apart: every run past the In Progress
\* write works on a snapshot that was fetched as New and on its own
\* successful write alone, so a project's leads are inserted up to once per
\* loop (the witness: twice, with both loops writing its status).
C4_NoClaimOnProjects ==
  /\ \A i \in Running :
       pc[i] \in {"generate", "add_leads", "finish"} =>
         /\ cur[i].fields.Status = "New"
         /\ log[i][1] = PatchEvent(cur[i].id, "In Progress", 0, TRUE)
  /\ \A p \in ProjectIds : insertRuns[p] <= Cardinality(Running)

C4_Witness ==
  \E p \in ProjectIds :
    /\ insertRuns[p] = 2
    /\ Cardinality(LeadsOf(p)) = 2 * DefaultLeadCount
    /\ \A i \in {1, 2} :
         /\ log[i] # <<>>
         /\ log[i][1] = PatchEvent(p, "In Progress", 0, TRUE)
         /\ log[i][Len(log[i])].status \in Terminal
         /\ log[i][Len(log[i])].ok

====
